---------------------------- MODULE Spec2Model ----------------------------
(***************************************************************************)
(* A model of the Bitcoin analysis bot: the five-task sequential crew of   *)
(* bitcoin_analyzer.py, its search tool and its post-write encoding pass,  *)
(* the dispatch wrapper of run_and_email.py and the daily scheduler of     *)
(* scheduled_email.py.                                                     *)
(***************************************************************************)
EXTENDS Integers, Sequences, FiniteSets, TLC

VARIABLES
    entry,        \* the script that was started (its __main__ block)
    env,          \* the credentials present in the environment
    proc,         \* "boot", "run", "exit_ok", "exit_err", "stopped"
    pc,           \* the innermost position of the single thread of control
    sched,        \* scheduler frame: "off", "initial", "idle", "triggered"
    now,          \* wall clock, in hours since midnight of the start day
    startTime,    \* the hour the process was started
    next_run,     \* schedule's Job.next_run (NoRun before registration)
    fired,        \* the trigger instants run_pending has consumed so far
    jobs,         \* number of calls of job()
    jobLog,       \* what job() printed last: "none", "started", "ok" or the error
    run,          \* number of crew.kickoff() calls so far (the current run)
    stage,        \* number of tasks the current run has completed
    executing,    \* TRUE while the worker of task stage+1 is running
    ctx,          \* task.output of every task (NoOutput before its first execution)
    inputCtx,     \* the context handed to each task's worker in the current run
    invoked,      \* the tasks whose worker the current run has invoked, in order
    failedStage,  \* the task whose worker raised in the current run (0: none)
    file,         \* output.html: whether it exists, its bytes, the run that wrote it
    msg,          \* the message built by send_email_with_html (NoMsg: none)
    smtp,         \* the SMTP calls of the current dispatch, in order
    sendRet,      \* send_email_with_html's return value in this dispatch
    mainLog,      \* the exception main() printed with a traceback ("none")
    mainRaised,   \* the exception that left main() in this dispatch ("none")
    interrupted,  \* where a KeyboardInterrupt was delivered ("none": not yet)
    query,        \* search tool: the query argument
    response,     \* search tool: what the provider call does
    sentQuery,    \* search tool: params["q"] as sent to the provider
    ret,          \* search tool: the returned string, as a sequence of pieces
    spc,          \* search tool: "call", "returned" or "raised"
    text,         \* encoding pass: the document's text (code points)
    trueEnc,      \* encoding pass: the encoding the document was written in
    bytes,        \* encoding pass: the bytes of output.html
    epc           \* encoding pass: "written" or "normalized"

flowVars  == <<proc, pc, sched, next_run, jobLog, mainLog, mainRaised>>
runVars   == <<run, stage, executing, ctx, inputCtx, invoked, failedStage>>
mailVars  == <<msg, smtp, sendRet>>
schedVars == <<fired, jobs>>
toolVars  == <<query, response, sentQuery, ret, spc>>
encVars   == <<text, trueEnc, bytes, epc>>
mainVars  == <<entry, env, now, startTime, flowVars, runVars, mailVars,
               schedVars, file, interrupted>>
vars      == <<mainVars, toolVars, encVars>>

NoRun    == -1
NoOutput == [stage |-> "none", run |-> 0]      \* task.output is None
NoFile   == [exists |-> FALSE, run |-> 0, bytes |-> <<>>]
NoMsg    == [built |-> FALSE, fileRun |-> 0, body |-> <<>>]

-----------------------------------------------------------------------------
(* Bounds of the model.                                                    *)

MaxDays     == 1    \* daily triggers explored after the one of the start day
MaxLen      == 2    \* longest document (in characters) of the encoding pass
MaxQueryLen == 2    \* longest query string of the search tool
MaxItems    == 11   \* longest provider result list

-----------------------------------------------------------------------------
(* Codecs of the encoding pass (Python's utf-8, utf-8-sig, latin-1 and     *)
(* cp1252), on bytes 0..255 and code points.                               *)

DecodeError == <<-1>>

Cons(x, s) == IF s = DecodeError THEN DecodeError ELSE <<x>> \o s

IsCont(b, i) == i <= Len(b) /\ b[i] >= 128 /\ b[i] <= 191

RECURSIVE Utf8From(_, _)
Utf8From(b, i) ==
    IF i > Len(b) THEN <<>>
    ELSE LET b0 == b[i] IN
      IF b0 < 128 THEN Cons(b0, Utf8From(b, i + 1))
      ELSE IF b0 >= 194 /\ b0 <= 223 /\ IsCont(b, i + 1)
        THEN Cons((b0 - 192) * 64 + (b[i + 1] - 128), Utf8From(b, i + 2))
      ELSE IF b0 >= 224 /\ b0 <= 239 /\ IsCont(b, i + 1) /\ IsCont(b, i + 2)
              /\ (b0 = 224 => b[i + 1] >= 160)
              /\ (b0 = 237 => b[i + 1] <= 159)
        THEN Cons((b0 - 224) * 4096 + (b[i + 1] - 128) * 64 + (b[i + 2] - 128),
                  Utf8From(b, i + 3))
      ELSE IF b0 >= 240 /\ b0 <= 244 /\ IsCont(b, i + 1) /\ IsCont(b, i + 2)
              /\ IsCont(b, i + 3)
              /\ (b0 = 240 => b[i + 1] >= 144)
              /\ (b0 = 244 => b[i + 1] <= 143)
        THEN Cons((b0 - 240) * 262144 + (b[i + 1] - 128) * 4096
                    + (b[i + 2] - 128) * 64 + (b[i + 3] - 128),
                  Utf8From(b, i + 4))
      ELSE DecodeError

DecodeUtf8(b) == Utf8From(b, 1)

BOM == <<239, 187, 191>>

HasBOM(b) == Len(b) >= 3 /\ SubSeq(b, 1, 3) = BOM

DecodeUtf8Sig(b) == IF HasBOM(b) THEN Utf8From(b, 4) ELSE Utf8From(b, 1)

DecodeLatin1(b) == b

\* cp1252's bytes 0x80..0x9F; 0x81, 0x8D, 0x8F, 0x90 and 0x9D are undefined.
Cp1252High ==
    (128 :> 8364) @@ (130 :> 8218) @@ (131 :> 402) @@ (132 :> 8222) @@
    (133 :> 8230) @@ (134 :> 8224) @@ (135 :> 8225) @@ (136 :> 710) @@
    (137 :> 8240) @@ (138 :> 352) @@ (139 :> 8249) @@ (140 :> 338) @@
    (142 :> 381) @@ (145 :> 8216) @@ (146 :> 8217) @@ (147 :> 8220) @@
    (148 :> 8221) @@ (149 :> 8226) @@ (150 :> 8211) @@ (151 :> 8212) @@
    (152 :> 732) @@ (153 :> 8482) @@ (154 :> 353) @@ (155 :> 8250) @@
    (156 :> 339) @@ (158 :> 382) @@ (159 :> 376)

RECURSIVE Cp1252From(_, _)
Cp1252From(b, i) ==
    IF i > Len(b) THEN <<>>
    ELSE IF b[i] < 128 \/ b[i] >= 160 THEN Cons(b[i], Cp1252From(b, i + 1))
    ELSE IF b[i] \in DOMAIN Cp1252High
      THEN Cons(Cp1252High[b[i]], Cp1252From(b, i + 1))
    ELSE DecodeError

DecodeCp1252(b) == Cp1252From(b, 1)

Decode(enc, b) ==
    CASE enc = "utf-8"     -> DecodeUtf8(b)
      [] enc = "utf-8-sig" -> DecodeUtf8Sig(b)
      [] enc = "latin-1"   -> DecodeLatin1(b)
      [] enc = "cp1252"    -> DecodeCp1252(b)

\* str.encode("utf-8", errors="replace"): a lone surrogate becomes "?".
EncodeCp(c) ==
    IF c < 128 THEN <<c>>
    ELSE IF c < 2048 THEN <<192 + (c \div 64), 128 + (c % 64)>>
    ELSE IF c >= 55296 /\ c <= 57343 THEN <<63>>
    ELSE IF c < 65536
      THEN <<224 + (c \div 4096), 128 + ((c \div 64) % 64), 128 + (c % 64)>>
    ELSE <<240 + (c \div 262144), 128 + ((c \div 4096) % 64),
           128 + ((c \div 64) % 64), 128 + (c % 64)>>

RECURSIVE EncodeUtf8(_)
EncodeUtf8(s) == IF s = <<>> THEN <<>> ELSE EncodeCp(Head(s)) \o EncodeUtf8(Tail(s))

Cp1252Byte(c) ==
    IF c < 128 \/ (c >= 160 /\ c <= 255) THEN c
    ELSE IF \E h \in DOMAIN Cp1252High : Cp1252High[h] = c
      THEN CHOOSE h \in DOMAIN Cp1252High : Cp1252High[h] = c
    ELSE -1

\* The bytes a writer using encoding enc produces for the text s.
Encode(enc, s) ==
    CASE enc = "utf-8"     -> EncodeUtf8(s)
      [] enc = "utf-8-sig" -> BOM \o EncodeUtf8(s)
      [] enc = "latin-1"   -> s
      [] enc = "cp1252"    -> [i \in 1..Len(s) |-> Cp1252Byte(s[i])]

Encodable(enc, s) ==
    CASE enc = "latin-1" -> \A i \in 1..Len(s) : s[i] <= 255
      [] enc = "cp1252"  -> \A i \in 1..Len(s) : Cp1252Byte(s[i]) >= 0
      [] OTHER           -> \A i \in 1..Len(s) : s[i] < 55296 \/ s[i] > 57343

\* The candidate list of the normalization pass, in the order it is tried.
Candidates == <<"utf-8", "utf-8-sig", "latin-1", "cp1252">>

RECURSIVE FirstDecoding(_, _)
FirstDecoding(b, i) ==
    IF i > Len(Candidates) THEN DecodeError
    ELSE IF Decode(Candidates[i], b) # DecodeError THEN Decode(Candidates[i], b)
    ELSE FirstDecoding(b, i + 1)

\* Lines 303-320: read the bytes, take the first candidate that decodes and,
\* when it gave a non-empty string, rewrite the file as UTF-8.
FixEncoding(b) ==
    LET html_content == FirstDecoding(b, 1) IN
    IF html_content # DecodeError /\ html_content # <<>>
      THEN EncodeUtf8(html_content)
      ELSE b

-----------------------------------------------------------------------------
(* The search tool, search_bitcoin_articles.  A string is modelled as the  *)
(* sequence of the pieces it is formatted from; a query as a sequence of   *)
(* characters.                                                             *)

Creds == {"OPENAI_API_KEY", "SERPAPI_API_KEY", "GMAIL_ADDRESS", "GMAIL_PASSWORD"}

Chars == {" ", "b"}

Queries == UNION {[1..n -> Chars] : n \in 0..MaxQueryLen}

DefaultQuery == <<"Bitcoin BTC market price trading news today">>

RECURSIVE LStrip(_)
LStrip(q) == IF q # <<>> /\ Head(q) = " " THEN LStrip(Tail(q)) ELSE q

RECURSIVE RStrip(_)
RStrip(q) ==
    IF q # <<>> /\ q[Len(q)] = " " THEN RStrip(SubSeq(q, 1, Len(q) - 1)) ELSE q

Strip(q) == RStrip(LStrip(q))

\* The result list taken whole.
ResultCap_uncapped == MaxItems + 1

\* Line 85: results["news_results"][:10]
ResultCap == 10

Min(a, b) == IF a < b THEN a ELSE b

\* What the provider call does: raise, or return a dict that holds an error,
\* no "news_results" key, or a list of n items.  An item is a dict with all
\* fields ("full"), without a link ("nolink"), without any field ("empty"),
\* or not a dict at all ("bad": item.get raises AttributeError).
Shapes == {"full", "nolink", "empty", "mixed"}

Responses ==
    [kind : {"KeyError", "Exception", "error", "nokey"}, n : {0}, shape : {"full"},
     badAt : {0}]
    \cup
    {r \in [kind : {"list"}, n : 0..MaxItems, shape : Shapes, badAt : 0..MaxItems] :
        r.badAt <= r.n}

ItemKind(r, i) ==
    IF i = r.badAt THEN "bad"
    ELSE IF r.shape = "mixed"
      THEN (CASE i % 3 = 1 -> "full" [] i % 3 = 2 -> "nolink" [] OTHER -> "empty")
    ELSE r.shape

\* Lines 86-93: one formatted article.
Field(kind, name) == IF kind = "empty" THEN "N/A" ELSE name

ArticleText(kind) ==
    <<"Title: ", Field(kind, "<title>"), "\n", "Source: ", Field(kind, "<source>"), "\n",
      "Date: ", Field(kind, "<date>"), "\n", "Snippet: ", Field(kind, "<snippet>"), "\n">>
    \o (IF kind = "full" THEN <<"Link: ", "<link>", "\n">> ELSE <<>>)
    \o <<"\n---\n">>

\* "\n".join(articles) over the items first..last of the response.
RECURSIVE JoinArticles(_, _, _)
JoinArticles(r, first, last) ==
    IF first > last THEN <<>>
    ELSE ArticleText(ItemKind(r, first))
         \o (IF first < last THEN <<"\n">> ELSE <<>>)
         \o JoinArticles(r, first + 1, last)

NoResults ==
    <<"No recent articles found. Try adjusting the search query or check if there are any articles from the past 24 hours.">>

Returned(sent, value) == [status |-> "returned", sent |-> sent, value |-> value]
Raised(sent, exc)     == [status |-> "raised", sent |-> sent, value |-> <<exc>>]

\* Lines 60-98, the body of the try: the result is a return value or the
\* exception the body raised, with the query sent to the provider (<<>>: no
\* provider call was made).
search_body(q, r, e) ==
    IF "SERPAPI_API_KEY" \notin e
      THEN Returned(<<>>, <<"Error: ", "SERPAPI_API_KEY not found in environment variables">>)
    ELSE LET q1    == IF q = <<>> \/ Strip(q) = <<>> THEN DefaultQuery ELSE q
             sent  == Strip(q1)
             taken == Min(r.n, ResultCap)
         IN
      CASE r.kind = "KeyError"  -> Raised(sent, "KeyError")
        [] r.kind = "Exception" -> Raised(sent, "Exception")
        [] r.kind = "error"     -> Returned(sent, <<"SerpAPI Error: ", "<error>">>)
        [] r.kind = "nokey"     -> Returned(sent, NoResults)
        [] r.kind = "list"      ->
             IF r.badAt >= 1 /\ r.badAt <= taken THEN Raised(sent, "AttributeError")
             ELSE IF taken = 0 THEN Returned(sent, NoResults)
             ELSE Returned(sent, JoinArticles(r, 1, taken))

\* Lines 99-102, the handlers: KeyError, then every other Exception.
search_handlers(res) ==
    IF res.status = "returned" THEN res
    ELSE IF res.value = <<"KeyError">>
      THEN Returned(res.sent,
                    <<"Error: ", "Missing expected data in API response - ", "<key>">>)
    ELSE Returned(res.sent, <<"Error searching: ", "<exception>">>)

search_bitcoin_articles(q, r, e) == search_handlers(search_body(q, r, e))

-----------------------------------------------------------------------------
(* The crew: five tasks run by Process.sequential, each with the tasks it  *)
(* declares as context.                                                    *)

\* The tasks listed with the reader ahead of the search.
Tasks_readerFirst == <<"read", "search", "synthesis", "analysis", "webpage">>

\* Line 285: tasks=[search_task, read_task, synthesis_task, analysis_task, webpage_task]
Tasks == <<"search", "read", "synthesis", "analysis", "webpage">>

\* The webpage task declared without the analysis task in its context.
TaskContext_withoutAnalysis(t) ==
    CASE t = "search"    -> <<>>
      [] t = "read"      -> <<"search">>
      [] t = "synthesis" -> <<"read">>
      [] t = "analysis"  -> <<"synthesis">>
      [] t = "webpage"   -> <<"search", "read", "synthesis">>

\* The context= argument of each Task (lines 175-274).
TaskContext(t) ==
    CASE t = "search"    -> <<>>
      [] t = "read"      -> <<"search">>
      [] t = "synthesis" -> <<"read">>
      [] t = "analysis"  -> <<"synthesis">>
      [] t = "webpage"   -> <<"search", "read", "synthesis", "analysis">>

\* What a worker is handed: the outputs of its context tasks, in the declared
\* order, as they stand when the task starts.
ContextOf(t) == [i \in 1..Len(TaskContext(t)) |-> ctx[TaskContext(t)[i]]]

\* The worker's output is opaque; the model names it by the task and the run
\* that produced it, so that any two outputs are distinguishable.
Output(t, r) == [stage |-> t, run |-> r]

\* What the FileWriterTool may leave in output.html: the document "EUR sign"
\* written in the platform's encoding, here cp1252.
WrittenDocs == {Encode("cp1252", <<8364>>)}

StaleFile == [exists |-> TRUE, run |-> 0, bytes |-> Encode("utf-8", <<8364>>)]

-----------------------------------------------------------------------------
(* The scheduler's clock.                                                  *)

HoursPerDay == 24
TriggerHour == 8      \* line 57: every().day.at("08:00")
StartHours  == {7, 8, 9}

\* The clock is explored up to the last of these triggers.
Horizon == HoursPerDay * MaxDays + TriggerHour

DayOf(t)  == t \div HoursPerDay
HourOf(t) == t % HoursPerDay

\* The trigger of the current day, whether or not it has passed.
NextRunAfter_sameDay(t) == DayOf(t) * HoursPerDay + TriggerHour

\* schedule's Job._schedule_next_run for every().day.at("08:00"): the first
\* 08:00 strictly after the instant t.
NextRunAfter(t) ==
    IF HourOf(t) < TriggerHour
      THEN DayOf(t) * HoursPerDay + TriggerHour
      ELSE (DayOf(t) + 1) * HoursPerDay + TriggerHour

-----------------------------------------------------------------------------
(* Control flow: where a return or an exception of one frame lands.        *)

\* job() without its try/except: an error of main() ends the process.
JobReturns_uncaught(exc) ==
    IF exc = "none"
      THEN /\ jobLog' = "ok"
           /\ sched' = "idle"
           /\ pc' = "poll"
           /\ next_run' = (IF sched = "triggered" THEN NextRunAfter(now) ELSE next_run)
           /\ UNCHANGED proc
      ELSE /\ proc' = "exit_err"
           /\ pc' = "done"
           /\ UNCHANGED <<sched, next_run, jobLog>>

\* job() ends (lines 33-40): an Exception of main() is caught and printed, a
\* normal return prints "completed"; then the scheduler is idle again, and a
\* triggered job is rescheduled by schedule's Job.run.
JobReturns(exc) ==
    /\ jobLog' = (IF exc = "none" THEN "ok" ELSE exc)
    /\ sched' = "idle"
    /\ pc' = "poll"
    /\ next_run' = (IF sched = "triggered" THEN NextRunAfter(now) ELSE next_run)
    /\ UNCHANGED proc

\* main() of run_and_email ends, returning (exc = "none") or raising exc,
\* having printed the traceback of `logged`.
MainEnds(exc, logged) ==
    /\ mainRaised' = exc
    /\ mainLog' = logged
    /\ IF entry = "scheduled_email"
         THEN JobReturns(exc)
         ELSE /\ proc' = (IF exc = "none" THEN "exit_ok" ELSE "exit_err")
              /\ pc' = "done"
              /\ UNCHANGED <<sched, next_run, jobLog>>

\* main() catching the analysis error without raising it again.
AnalysisEnds_swallowed(exc) ==
    IF entry = "bitcoin_analyzer"
      THEN /\ proc' = (IF exc = "none" THEN "exit_ok" ELSE "exit_err")
           /\ pc' = "done"
           /\ UNCHANGED <<sched, next_run, jobLog, mainLog, mainRaised>>
      ELSE /\ pc' = "check"
           /\ mainLog' = exc
           /\ UNCHANGED <<proc, sched, next_run, jobLog, mainRaised>>

\* run_bitcoin_analysis ends.  Under main() (lines 127-134) an Exception is
\* printed with its traceback and raised again.
AnalysisEnds(exc) ==
    IF entry = "bitcoin_analyzer"
      THEN /\ proc' = (IF exc = "none" THEN "exit_ok" ELSE "exit_err")
           /\ pc' = "done"
           /\ UNCHANGED <<sched, next_run, jobLog, mainLog, mainRaised>>
    ELSE IF exc = "none"
      THEN /\ pc' = "check"
           /\ UNCHANGED <<proc, sched, next_run, jobLog, mainLog, mainRaised>>
    ELSE MainEnds(exc, exc)

\* main() reporting success whatever send_email_with_html returned.
SendReturns_ignored(r) ==
    /\ sendRet' = r
    /\ MainEnds("none", "none")

\* send_email_with_html returns r (lines 148-158 of main).
SendReturns(r) ==
    /\ sendRet' = r
    /\ IF r = "True" THEN MainEnds("none", "none") ELSE MainEnds("Exception", "none")

\* crew.kickoff() begins a run (lines 277-291).
StartAnalysis ==
    /\ run' = run + 1
    /\ stage' = 0
    /\ executing' = FALSE
    /\ inputCtx' = [t \in DOMAIN inputCtx |-> <<>>]
    /\ invoked' = <<>>
    /\ failedStage' = 0
    /\ UNCHANGED ctx

\* main() of run_and_email begins (lines 114-128).
StartDispatch ==
    /\ StartAnalysis
    /\ msg' = NoMsg
    /\ smtp' = <<>>
    /\ sendRet' = "none"
    /\ mainLog' = "none"
    /\ mainRaised' = "none"
    /\ pc' = "kickoff"

-----------------------------------------------------------------------------
(* Reading the artifact for the mail body: open(..., encoding="utf-8",     *)
(* errors="replace"), which never fails to decode, so the first candidate  *)
(* of lines 47-55 is always the one used.                                  *)

Need(b0) ==
    IF b0 >= 194 /\ b0 <= 223 THEN 2
    ELSE IF b0 >= 224 /\ b0 <= 239 THEN 3
    ELSE IF b0 >= 240 /\ b0 <= 244 THEN 4
    ELSE 0

SecondOk(b0, x) ==
    /\ x >= (IF b0 = 224 THEN 160 ELSE IF b0 = 240 THEN 144 ELSE 128)
    /\ x <= (IF b0 = 237 THEN 159 ELSE IF b0 = 244 THEN 143 ELSE 191)

\* The number of bytes after b[i] that continue a sequence b[i] may start.
Continues(b, i) ==
    IF ~(Need(b[i]) >= 2 /\ i + 1 <= Len(b) /\ SecondOk(b[i], b[i + 1])) THEN 0
    ELSE IF ~(Need(b[i]) >= 3 /\ IsCont(b, i + 2)) THEN 1
    ELSE IF ~(Need(b[i]) >= 4 /\ IsCont(b, i + 3)) THEN 2
    ELSE 3

RECURSIVE Utf8ReplaceFrom(_, _)
Utf8ReplaceFrom(b, i) ==
    IF i > Len(b) THEN <<>>
    ELSE IF b[i] < 128 THEN <<b[i]>> \o Utf8ReplaceFrom(b, i + 1)
    ELSE IF Need(b[i]) >= 2 /\ Continues(b, i) = Need(b[i]) - 1
      THEN Utf8From(SubSeq(b, i, i + Need(b[i]) - 1), 1)
           \o Utf8ReplaceFrom(b, i + Need(b[i]))
    ELSE <<65533>> \o Utf8ReplaceFrom(b, i + 1 + Continues(b, i))

ReadHtml(b) == Utf8ReplaceFrom(b, 1)

-----------------------------------------------------------------------------
(* The process: import, pipeline run, report pass, dispatch, scheduler.    *)

Entries == {"bitcoin_analyzer", "run_and_email", "scheduled_email"}

NotInterrupted == [at |-> "none", pc |-> "none"]

\* Module import and the start of the entry point.  bitcoin_analyzer's
\* module-level check (lines 33-39) runs under every entry point; then
\* run_bitcoin_analysis, main() of run_and_email, or the scheduler's main()
\* (lines 57-64: register the daily job, then job() at once) begins.
Import ==
    /\ proc = "boot"
    /\ IF {"OPENAI_API_KEY", "SERPAPI_API_KEY"} \subseteq env
         THEN /\ proc' = "run"
              /\ pc' = "kickoff"
              /\ StartAnalysis
              /\ IF entry = "scheduled_email"
                   THEN /\ next_run' = NextRunAfter(now)
                        /\ sched' = "initial"
                        /\ jobs' = jobs + 1
                        /\ jobLog' = "started"
                   ELSE UNCHANGED <<next_run, sched, jobs, jobLog>>
         ELSE /\ proc' = "exit_err"
              /\ pc' = "done"
              /\ UNCHANGED <<runVars, next_run, sched, jobs, jobLog>>
    /\ UNCHANGED <<entry, env, now, startTime, mainLog, mainRaised,
                   mailVars, fired, file, interrupted, toolVars, encVars>>

\* Process.sequential hands the next task, with its context, to its worker.
StartStage ==
    /\ proc = "run" /\ pc = "kickoff" /\ ~executing /\ stage < Len(Tasks)
    /\ LET t == Tasks[stage + 1] IN
         /\ inputCtx' = [inputCtx EXCEPT ![t] = ContextOf(t)]
         /\ invoked' = Append(invoked, t)
    /\ executing' = TRUE
    /\ UNCHANGED <<entry, env, now, startTime, flowVars, run, stage, ctx,
                   failedStage, mailVars, schedVars, file, interrupted,
                   toolVars, encVars>>

\* Only the webpage agent holds the file writer tool (line 169); whether and
\* what it writes is the worker's choice.
WorkerWrites(t) ==
    {file} \cup (IF t = "webpage"
                   THEN {[exists |-> TRUE, run |-> run, bytes |-> d] : d \in WrittenDocs}
                   ELSE {})

\* The worker returns: its output is recorded as the task's output.
FinishStage ==
    /\ proc = "run" /\ pc = "kickoff" /\ executing
    /\ LET t == Tasks[stage + 1] IN
         /\ ctx' = [ctx EXCEPT ![t] = Output(t, run)]
         /\ file' \in WorkerWrites(t)
    /\ stage' = stage + 1
    /\ executing' = FALSE
    /\ pc' = (IF stage + 1 = Len(Tasks) THEN "report" ELSE "kickoff")
    /\ UNCHANGED <<entry, env, now, startTime, proc, sched, next_run, jobLog,
                   mainLog, mainRaised, run, inputCtx, invoked, failedStage,
                   mailVars, schedVars, interrupted, toolVars, encVars>>

\* The worker raises: kickoff() raises, nothing in run_bitcoin_analysis
\* catches it (line 291).
FailStage ==
    /\ proc = "run" /\ pc = "kickoff" /\ executing
    /\ failedStage' = stage + 1
    /\ executing' = FALSE
    /\ file' \in WorkerWrites(Tasks[stage + 1])
    /\ AnalysisEnds("WorkerError")
    /\ UNCHANGED <<entry, env, now, startTime, run, stage, ctx, inputCtx,
                   invoked, mailVars, schedVars, interrupted, toolVars, encVars>>

\* Lines 293-326: after kickoff() returned, the encoding pass over the file
\* if it exists, then the return.
Report ==
    /\ proc = "run" /\ pc = "report"
    /\ file' = (IF file.exists THEN [file EXCEPT !.bytes = FixEncoding(@)] ELSE file)
    /\ AnalysisEnds("none")
    /\ UNCHANGED <<entry, env, now, startTime, runVars, mailVars, schedVars,
                   interrupted, toolVars, encVars>>

\* The existence checks left out.
ArtifactExists_unchecked(f) == TRUE

\* os.path.exists("output.html"): line 137 of main(), line 42 of
\* send_email_with_html.
ArtifactExists(f) == f.exists

\* main() lines 136-146 and send_email_with_html lines 36-92: the existence
\* check, the credentials, reading the file and building the message.
CheckAndPrepare ==
    /\ proc = "run" /\ pc = "check"
    /\ IF ~ArtifactExists(file)
         THEN MainEnds("FileNotFoundError", "none") /\ UNCHANGED msg
       ELSE IF ~({"GMAIL_ADDRESS", "GMAIL_PASSWORD"} \subseteq env)
         THEN MainEnds("ValueError", "none") /\ UNCHANGED msg
       ELSE \E readable \in BOOLEAN :
              IF readable
                THEN /\ msg' = [built |-> TRUE, fileRun |-> file.run,
                                body |-> ReadHtml(file.bytes)]
                     /\ pc' = "smtp_connect"
                     /\ UNCHANGED <<proc, sched, next_run, jobLog, mainLog, mainRaised>>
                ELSE MainEnds("ValueError", "none") /\ UNCHANGED msg
    /\ UNCHANGED <<entry, env, now, startTime, runVars, smtp, sendRet, schedVars,
                   file, interrupted, toolVars, encVars>>

\* One SMTP call of lines 97-105 and whether it succeeded.
Call(name, ok) == [call |-> name, ok |-> ok]

\* Lines 97-98: smtplib.SMTP(...) and starttls().
SmtpConnect ==
    /\ proc = "run" /\ pc = "smtp_connect"
    /\ \E ok \in BOOLEAN :
         /\ smtp' = Append(smtp, Call("connect", ok))
         /\ IF ok
              THEN /\ pc' = "smtp_login"
                   /\ UNCHANGED <<proc, sched, next_run, jobLog, mainLog, mainRaised,
                                  sendRet>>
              ELSE SendReturns("False")
    /\ UNCHANGED <<entry, env, now, startTime, runVars, msg, schedVars, file,
                   interrupted, toolVars, encVars>>

\* Line 100: server.login(...).
SmtpLogin ==
    /\ proc = "run" /\ pc = "smtp_login"
    /\ \E ok \in BOOLEAN :
         /\ smtp' = Append(smtp, Call("login", ok))
         /\ IF ok
              THEN /\ pc' = "smtp_sendmail"
                   /\ UNCHANGED <<proc, sched, next_run, jobLog, mainLog, mainRaised,
                                  sendRet>>
              ELSE SendReturns("False")
    /\ UNCHANGED <<entry, env, now, startTime, runVars, msg, schedVars, file,
                   interrupted, toolVars, encVars>>

\* Lines 103-111: sendmail, quit, return True; any Exception returns False.
SmtpSendmail ==
    /\ proc = "run" /\ pc = "smtp_sendmail"
    /\ \E outcome \in {"ok", "send_fail", "quit_fail"} :
         /\ smtp' = (IF outcome = "send_fail"
                       THEN Append(smtp, Call("sendmail", FALSE))
                       ELSE smtp \o <<Call("sendmail", TRUE),
                                      Call("quit", outcome = "ok")>>)
         /\ SendReturns(IF outcome = "ok" THEN "True" ELSE "False")
    /\ UNCHANGED <<entry, env, now, startTime, runVars, msg, schedVars, file,
                   interrupted, toolVars, encVars>>

\* Lines 73-75: run_pending() finds the daily job due and calls job().
RunPending ==
    /\ proc = "run" /\ sched = "idle" /\ pc = "poll"
    /\ now >= next_run
    /\ fired' = Append(fired, next_run)
    /\ jobs' = jobs + 1
    /\ sched' = "triggered"
    /\ jobLog' = "started"
    /\ StartDispatch
    /\ UNCHANGED <<entry, env, now, startTime, proc, next_run, file,
                   interrupted, toolVars, encVars>>

\* The thread is in a blocking call: a worker, an SMTP call, time.sleep(60).
Blocked ==
    \/ pc = "kickoff" /\ executing
    \/ pc \in {"smtp_connect", "smtp_login", "smtp_sendmail", "poll"}

\* Wall-clock time passes while the thread is blocked.
Tick ==
    /\ proc = "run"
    /\ Blocked
    /\ now < Horizon
    /\ now' = now + 1
    /\ UNCHANGED <<entry, env, startTime, flowVars, runVars, mailVars, schedVars,
                   file, interrupted, toolVars, encVars>>

\* job() catching every BaseException: Ctrl+C during a job only ends the job.
Interrupt_caughtByJob ==
    /\ proc = "run"
    /\ interrupted' = [at |-> sched, pc |-> pc]
    /\ IF sched \in {"initial", "triggered"}
         THEN JobReturns("KeyboardInterrupt")
         ELSE /\ proc' = (IF sched = "idle" THEN "stopped" ELSE "exit_err")
              /\ pc' = "done"
              /\ UNCHANGED <<sched, next_run, jobLog>>
    /\ UNCHANGED <<entry, env, now, startTime, mainLog, mainRaised, runVars,
                   mailVars, schedVars, file, toolVars, encVars>>

\* Ctrl+C: KeyboardInterrupt is raised in the main thread wherever it is.  It
\* is no Exception, so job(), main() and send_email_with_html let it pass; the
\* scheduler's loop (lines 72-79) catches it, the initial job() call (line 64)
\* and the other entry points do not.  The encoding pass (Report) is one step
\* here, so the bare except of bitcoin_analyzer.py:311, which would swallow
\* an interrupt raised inside content.decode, is never the place of delivery.
Interrupt ==
    /\ proc = "run"
    /\ interrupted' = [at |-> sched, pc |-> pc]
    /\ proc' = (IF sched \in {"idle", "triggered"} THEN "stopped" ELSE "exit_err")
    /\ pc' = "done"
    /\ UNCHANGED <<entry, env, now, startTime, sched, next_run, jobLog, mainLog,
                   mainRaised, runVars, mailVars, schedVars, file, toolVars, encVars>>

-----------------------------------------------------------------------------
(* The search tool and the encoding pass on their own inputs.              *)

Search ==
    /\ spc = "call"
    /\ LET res == search_bitcoin_articles(query, response, env) IN
         /\ spc' = res.status
         /\ ret' = res.value
         /\ sentQuery' = res.sent
    /\ UNCHANGED <<mainVars, query, response, encVars>>

\* The characters documents are made of: A, e-acute, A-tilde, the copyright
\* sign and the euro sign.
Alphabet == {65, 233, 195, 169, 8364}

Texts == UNION {[1..n -> Alphabet] : n \in 0..MaxLen}

Normalize ==
    /\ epc = "written"
    /\ bytes' = FixEncoding(bytes)
    /\ epc' = "normalized"
    /\ UNCHANGED <<mainVars, toolVars, text, trueEnc>>

-----------------------------------------------------------------------------

ToolParked ==
    /\ query = <<>>
    /\ response = [kind |-> "nokey", n |-> 0, shape |-> "full", badAt |-> 0]
    /\ sentQuery = <<>> /\ ret = <<>> /\ spc = "parked"

EncParked == text = <<>> /\ trueEnc = "utf-8" /\ bytes = <<>> /\ epc = "parked"

MainInit ==
    /\ entry \in Entries
    /\ env \in {Creds} \cup {Creds \ {c} : c \in Creds}
    /\ now \in StartHours
    /\ startTime = now
    /\ proc = "boot" /\ pc = "start" /\ sched = "off"
    /\ next_run = NoRun /\ fired = <<>> /\ jobs = 0 /\ jobLog = "none"
    /\ run = 0 /\ stage = 0 /\ executing = FALSE
    /\ ctx = [t \in {Tasks[i] : i \in 1..Len(Tasks)} |-> NoOutput]
    /\ inputCtx = [t \in {Tasks[i] : i \in 1..Len(Tasks)} |-> <<>>]
    /\ invoked = <<>> /\ failedStage = 0
    /\ file \in {NoFile, StaleFile}
    /\ msg = NoMsg /\ smtp = <<>> /\ sendRet = "none"
    /\ mainLog = "none" /\ mainRaised = "none"
    /\ interrupted = NotInterrupted

MainParked ==
    /\ entry = "bitcoin_analyzer" /\ env = Creds /\ now = 0 /\ startTime = 0
    /\ proc = "parked" /\ pc = "parked" /\ sched = "off"
    /\ next_run = NoRun /\ fired = <<>> /\ jobs = 0 /\ jobLog = "none"
    /\ run = 0 /\ stage = 0 /\ executing = FALSE
    /\ ctx = [t \in {Tasks[i] : i \in 1..Len(Tasks)} |-> NoOutput]
    /\ inputCtx = [t \in {Tasks[i] : i \in 1..Len(Tasks)} |-> <<>>]
    /\ invoked = <<>> /\ failedStage = 0
    /\ file = NoFile
    /\ msg = NoMsg /\ smtp = <<>> /\ sendRet = "none"
    /\ mainLog = "none" /\ mainRaised = "none"
    /\ interrupted = NotInterrupted

Init == MainInit /\ ToolParked /\ EncParked

Next ==
    \/ Import
    \/ StartStage
    \/ FinishStage
    \/ FailStage
    \/ Report
    \/ CheckAndPrepare
    \/ SmtpConnect
    \/ SmtpLogin
    \/ SmtpSendmail
    \/ RunPending
    \/ Tick
    \/ Interrupt

Spec == Init /\ [][Next]_vars

\* The clock advances and the scheduler's loop keeps polling (lines 73-75).
FairSpec == Spec /\ WF_vars(Tick) /\ WF_vars(RunPending)

\* The search tool applied to every query and provider behaviour.
SearchInit ==
    /\ MainParked /\ EncParked
    /\ query \in Queries
    /\ response \in Responses
    /\ sentQuery = <<>> /\ ret = <<>> /\ spc = "call"

SearchNext == Search

SearchSpec == SearchInit /\ [][SearchNext]_vars

\* The encoding pass applied to every document written in a candidate encoding.
EncInit ==
    /\ MainParked /\ ToolParked
    /\ text \in Texts
    /\ trueEnc \in {Candidates[i] : i \in 1..Len(Candidates)}
    /\ Encodable(trueEnc, text)
    /\ bytes = Encode(trueEnc, text)
    /\ epc = "written"

EncNext == Normalize

EncSpec == EncInit /\ [][EncNext]_vars

-----------------------------------------------------------------------------
(* Properties of the pipeline run.                                         *)

TaskSet == {Tasks[i] : i \in 1..Len(Tasks)}

\* C1: a run in which no worker fails invokes a worker exactly five times,
\* once per task in the order search, read, synthesis, analysis, webpage, and
\* the context handed to each task is exactly the outputs, of this run and in
\* this order, of: nothing (search), search (read), read (synthesis),
\* synthesis (analysis), and search, read, synthesis, analysis (webpage).
C1_RunInvokesEachStageOnceWithItsContext ==
    /\ Len(invoked) \in {stage, stage + 1}
    /\ invoked = SubSeq(<<"search", "read", "synthesis", "analysis", "webpage">>,
                        1, Len(invoked))
    /\ (stage = 5 =>
          /\ invoked = <<"search", "read", "synthesis", "analysis", "webpage">>
          /\ inputCtx["search"] = <<>>
          /\ inputCtx["read"] = <<Output("search", run)>>
          /\ inputCtx["synthesis"] = <<Output("read", run)>>
          /\ inputCtx["analysis"] = <<Output("synthesis", run)>>
          /\ inputCtx["webpage"] = <<Output("search", run), Output("read", run),
                                     Output("synthesis", run), Output("analysis", run)>>)

\* A second run has completed all five tasks.
C1_Witness == run = 2 /\ stage = 5 /\ pc = "report" /\ Len(invoked) = 5

\* The tasks whose output the current run has recorded.
Recorded == {t \in TaskSet : ctx[t] = Output(t, run)}

\* The executing task's declared context is recorded.
C2_ContextRecordedBeforeUse ==
    executing => \A i \in 1..Len(TaskContext(Tasks[stage + 1])) :
                    TaskContext(Tasks[stage + 1])[i] \in Recorded

\* A step within a run keeps every recorded output as it is.
C2_RecordedOutputsKept ==
    run' = run => \A t \in Recorded : ctx'[t] = ctx[t]

\* C2: a task whose worker has started has the output of every task it
\* declares as context recorded by the current run; and within a run a
\* recorded output is never changed or removed.
C2_ContextOnlyGrows ==
    []C2_ContextRecordedBeforeUse /\ [][C2_RecordedOutputsKept]_vars

\* The webpage task of a second run is executing, on four recorded outputs.
C2_Witness ==
    run = 2 /\ executing /\ Tasks[stage + 1] = "webpage" /\ Cardinality(Recorded) = 4

\* C3: when a worker fails, no later task of the run is executed, the failed
\* task is not invoked again, main() prints the failure and raises it again,
\* and the dispatch attempts no email transmission.
C3_WorkerFailureAbortsRun ==
    failedStage # 0 =>
        /\ ~executing
        /\ stage = failedStage - 1
        /\ invoked = SubSeq(Tasks, 1, failedStage)
        /\ pc \notin {"kickoff", "report", "check", "smtp_connect", "smtp_login",
                      "smtp_sendmail"}
        /\ smtp = <<>> /\ ~msg.built /\ sendRet = "none"
        /\ (entry # "bitcoin_analyzer" =>
              mainLog = "WorkerError" /\ mainRaised = "WorkerError")
        /\ (entry # "scheduled_email" => proc = "exit_err")

\* The third worker of a dispatch failed while a stale artifact was on disk.
C3_Witness ==
    failedStage = 3 /\ entry = "run_and_email" /\ proc = "exit_err" /\ file.exists

\* A dispatch is past main()'s existence check (line 137).
PastCheck ==
    /\ entry # "bitcoin_analyzer"
    /\ stage = 5
    /\ pc \notin {"kickoff", "report", "check"}
    /\ interrupted.pc \notin {"kickoff", "report", "check"}

\* C4: when the run returned without error and output.html does not exist,
\* main() raises FileNotFoundError and no SMTP connection, login or send is
\* attempted.
C4_MissingArtifactStopsDispatch ==
    (PastCheck /\ ~file.exists) =>
        /\ mainRaised = "FileNotFoundError"
        /\ smtp = <<>> /\ ~msg.built /\ sendRet = "none"
        /\ (entry = "run_and_email" => proc = "exit_err")

\* A scheduled job ran all five tasks and found no artifact.
C4_Witness ==
    /\ entry = "scheduled_email" /\ stage = 5 /\ ~file.exists
    /\ mainRaised = "FileNotFoundError" /\ sched = "idle"

SmtpFailed == \E i \in 1..Len(smtp) : ~smtp[i].ok

\* The dispatch has ended and reported success.
ReportedSuccess ==
    \/ entry = "run_and_email" /\ proc = "exit_ok"
    \/ entry = "scheduled_email" /\ sched = "idle" /\ jobLog = "ok"

\* C5: a failed SMTP call (connect, login, send) makes send_email_with_html
\* return False; main() then raises, and a dispatch reports success only when
\* the send returned True.
C5_SmtpFailureBecomesRaisedError ==
    /\ SmtpFailed =>
          /\ ~smtp[Len(smtp)].ok
          /\ sendRet = "False"
          /\ mainRaised = "Exception"
          /\ (entry = "run_and_email" => proc = "exit_err")
    /\ ReportedSuccess => sendRet = "True" /\ ~SmtpFailed

\* The sendmail call of a dispatch failed after connect and login succeeded.
C5_Witness ==
    /\ entry = "run_and_email" /\ Len(smtp) = 3 /\ ~smtp[3].ok
    /\ sendRet = "False" /\ proc = "exit_err"

-----------------------------------------------------------------------------
(* Properties of the scheduler.                                            *)

MaxJobs == MaxDays + 2

\* A scheduled job has ended with an error of main().
JobFailed == entry = "scheduled_email" /\ mainRaised # "none"

\* The error was printed by job(), the scheduler is idle and the job armed.
C6_ErrorCaughtAtJobBoundary ==
    JobFailed =>
        /\ jobLog = mainRaised
        /\ sched = "idle"
        /\ proc \in {"run", "stopped"}
        /\ (proc = "stopped" => interrupted.at = "idle")
        /\ HourOf(next_run) = TriggerHour
        /\ \A i \in 1..Len(fired) : fired[i] < next_run

\* C6: in scheduled mode an error of a job (worker failure, missing artifact,
\* missing mail credential, failed transmission) is caught by job(): the
\* scheduler is idle again with the daily job still armed, the process goes
\* on, and, unless the process is interrupted, the next trigger inside the
\* explored span starts the job again.
C6_FailedJobDoesNotStopScheduler ==
    /\ []C6_ErrorCaughtAtJobBoundary
    /\ \A k \in 1..MaxJobs :
         (JobFailed /\ proc = "run" /\ jobs = k /\ next_run <= Horizon)
            ~> (jobs = k + 1 \/ proc # "run")

\* A triggered job is running after an initial job whose run never reached
\* the end of the webpage task.
C6_Witness ==
    /\ entry = "scheduled_email" /\ sched = "triggered" /\ jobs = 2 /\ run = 2
    /\ ctx["webpage"] = NoOutput /\ executing

\* C7: the job runs once at start and then once per consumed daily trigger,
\* every consumed trigger being an 08:00 instant after the start and later
\* than the one before it; started at or after 08:00, it runs only the
\* initial job on the start day and the first trigger it consumes is 08:00 of
\* the following day.
C7_OncePerDailyTrigger ==
    (entry = "scheduled_email" /\ next_run # NoRun) =>
        /\ jobs = 1 + Len(fired)
        /\ \A i \in 1..Len(fired) :
             /\ HourOf(fired[i]) = 8
             /\ fired[i] > startTime
             /\ fired[i] <= now
             /\ (i > 1 => fired[i] > fired[i - 1])
        /\ (HourOf(startTime) >= 8 =>
              /\ (DayOf(now) = DayOf(startTime) => jobs = 1)
              /\ (fired # <<>> => fired[1] = (DayOf(startTime) + 1) * 24 + 8))

\* Started at 09:00, the first triggered job runs for 08:00 of the next day.
C7_Witness ==
    /\ entry = "scheduled_email" /\ startTime = 9 /\ sched = "triggered"
    /\ fired = <<HoursPerDay + TriggerHour>> /\ jobs = 2

C10_InterruptEndsProcess ==
    interrupted # NotInterrupted =>
        /\ pc = "done"
        /\ sched = interrupted.at
        /\ proc = (IF interrupted.at \in {"idle", "triggered"} THEN "stopped"
                   ELSE "exit_err")

\* After the interrupt the program takes no step.
C10_NothingRunsAfterInterrupt ==
    interrupted # NotInterrupted => UNCHANGED mainVars

-----------------------------------------------------------------------------
(* Properties of the search tool.                                          *)

Separators(v) == Cardinality({i \in 1..Len(v) : v[i] = "\n---\n"})

IsArticles(v) ==
    /\ v # <<>> /\ v[1] = "Title: " /\ v[Len(v)] = "\n---\n"
    /\ Separators(v) >= 1 /\ Separators(v) <= 10

IsSentinel(v) == v = NoResults

IsError(v) == v # <<>> /\ v[1] \in {"Error: ", "SerpAPI Error: ", "Error searching: "}

Kinds(v) ==
    {k \in {"articles", "sentinel", "error"} :
        \/ k = "articles" /\ IsArticles(v)
        \/ k = "sentinel" /\ IsSentinel(v)
        \/ k = "error" /\ IsError(v)}

\* C8: for every query and every provider behaviour the tool returns, never
\* raises, and what it returns is of exactly one kind: at most 10 formatted
\* articles, the no-results sentinel, or an error-marked string; a blank
\* query is sent as the default query.
C8_SearchAlwaysReturnsOneKind ==
    /\ spc # "raised"
    /\ (spc = "returned" =>
          /\ Cardinality(Kinds(ret)) = 1
          /\ sentQuery = (IF Strip(query) = <<>> THEN DefaultQuery ELSE Strip(query)))

\* A whitespace query met a result list longer than the cap.
C8_Witness ==
    /\ spc = "returned" /\ query = <<" ">> /\ sentQuery = DefaultQuery
    /\ response.kind = "list" /\ response.n = MaxItems
    /\ IsArticles(ret) /\ Separators(ret) = 10

-----------------------------------------------------------------------------
(* Properties of the encoding pass.                                        *)

\* C9: after the pass the file, read as UTF-8 (a byte order mark aside),
\* holds the text the document denotes in the encoding it was written in.
C9_RoundTrip == epc = "normalized" => DecodeUtf8Sig(bytes) = text

-----------------------------------------------------------------------------
(* Properties of the configuration and of the mailed artifact.             *)

\* The credentials the started program uses: the analysis alone needs the two
\* API keys, the programs that mail the report need the mail account as well.
RequiredCreds ==
    IF entry = "bitcoin_analyzer"
      THEN {"OPENAI_API_KEY", "SERPAPI_API_KEY"}
      ELSE Creds

\* C11: a process that lacks a required credential does no work: it invokes
\* no worker (hence makes no search call), writes no artifact, and its
\* scheduler never polls.
C11_MissingCredentialFailsAtStartup ==
    ~(RequiredCreds \subseteq env) =>
        /\ invoked = <<>>
        /\ file.run = 0
        /\ pc # "poll"

\* The message of the current dispatch was handed to sendmail.
TransmissionAttempted ==
    \E i \in 1..Len(smtp) : smtp[i].call = "sendmail"

\* C12: whenever a dispatch attempts a transmission, the message carries the
\* artifact written by the pipeline run of that same dispatch, never one left
\* in output.html by an earlier run.
C12_MailCarriesThisRunsArtifact ==
    TransmissionAttempted => msg.built /\ msg.fileRun = run

=============================================================================
